---- MODULE Spec2Model ----
(***************************************************************************)
(* ExternalSet<T> (src/lib.rs): a set of raw pointers to heap boxes, kept  *)
(* behind a std::sync::RwLock.  Each box is owned by one ItemOwner, whose  *)
(* take() or drop removes the pointer from the set and then frees the box. *)
(* Threads interleave at the grain of the lock: a thread takes a step when *)
(* it calls an operation, when the lock lets it in, when it runs the       *)
(* statement that holds the lock to its end, and when it reclaims a box.   *)
(***************************************************************************)
EXTENDS Integers, FiniteSets, Sequences, TLC

\* ---- bounds of the model -------------------------------------------------
\* Heap addresses the allocator hands out, ItemOwners ever created, values.
MaxAddr == 2
MaxHandles == 2
MaxVal == 2

\* Two threads share two ExternalSets; at most two guards exist at a time.
Threads == {1, 2}
Sets == {"A", "B"}
GuardIds == {1, 2}
Addrs == 1..MaxAddr
HandleIds == 1..MaxHandles

\* ---- markers -------------------------------------------------------------
\* Box::new of a zero-sized T allocates nothing: into_raw is the same
\* well-aligned dangling address every time.
Dangling == 0
\* The one value of a zero-sized T.
UnitVal == 0
NoThread == 0
\* A freed address holds <<>>, a boxed value v is <<v>>; Option<*mut T> and
\* Option<&T> are {} for None and {p} for Some(p).
Freed == <<>>
None == {}

VARIABLES
    zst,        \* whether T is zero-sized (fixed per program)
    writerPref, \* whether the platform's RwLock bars readers while a writer waits
    items,      \* ExternalSet.items: per set, the HashSet<*mut T>
    heap,       \* the allocator: per address, the boxed value or Freed
    writer,     \* per set, the thread holding RwLock write access
    poisoned,   \* per set, whether the RwLock is poisoned
    guards,     \* the ExternalSetReadGuards (RwLockReadGuard) that exist
    handles,    \* the ItemOwners ever created, with their fate
    pc,         \* per thread, its position inside insert/take/drop/lock
    cur,        \* per thread, the set and ItemOwner of the call it is in
    itr         \* the ExternalSetIter the last step ran to its end, with what it yielded

vars == <<zst, writerPref, items, heap, writer, poisoned, guards, handles, pc, cur, itr>>

\* ---- data ----------------------------------------------------------------
Ptrs == Addrs \cup {Dangling}

ItemValues == IF zst THEN {UnitVal} ELSE 1..MaxVal

NoHandle == [state |-> "none", collection |-> "A", ptr |-> Dangling, val |-> UnitVal, out |-> <<>>]

NoGuard == [held |-> FALSE, owner |-> NoThread, set |-> "A", snap |-> {}]

NoIter == [done |-> FALSE, g |-> 0, h |-> 0, except |-> None, out |-> {}, n |-> 0]

NoCall == [s |-> "A", h |-> 0]

\* ItemOwner states in which its pointer has been recorded in the HashSet by
\* insert and not yet removed by take or drop.
RecordedStates == {"recorded", "live", "ending"}

\* ---- the RwLock ----------------------------------------------------------
WriteWaitPcs == {"ins_wait", "take_wait", "drop_wait"}

HeldGuards(s) == {g \in GuardIds : guards[g].held /\ guards[g].set = s}

\* RwLock::write succeeds only with no writer and no reader.
CanWrite_IgnoresReaders(s) == writer[s] = NoThread

CanWrite(s) == writer[s] = NoThread /\ HeldGuards(s) = {}

\* The threads whose write() call has found the lock of set s taken and waits.
WaitingWriters(s) ==
    {t \in Threads : pc[t] \in WriteWaitPcs /\ cur[t].s = s /\ ~CanWrite(s)}

\* RwLock::read succeeds with no writer; whether a waiting writer bars new
\* readers is left to the platform (std documents the policy as unspecified).
CanRead_Exclusive(s) == writer[s] = NoThread /\ HeldGuards(s) = {}

CanRead(s) ==
    /\ writer[s] = NoThread
    /\ writerPref => WaitingWriters(s) = {}

\* .unwrap() of the LockResult that write() and read() return once they have
\* the lock: Err(PoisonError), and with it a panic, when the lock is poisoned.
UnwrapOk_IgnoresPoison(s) == TRUE

UnwrapOk(s) == ~poisoned[s]

\* The RwLockWriteGuard dropped: write access given back.
WriteUnlock_Leaked(s) == writer

WriteUnlock(s) == [writer EXCEPT ![s] = NoThread]

\* ---- the HashSet calls and the Box calls --------------------------------
HashInsert(set, p) == set \cup {p}

HashRemove_Noop(set, p) == set

HashRemove(set, p) == set \ {p}

\* Box::into_raw(Box::new(item)): any address the allocator has free.
BoxNewPtrs == IF zst THEN {Dangling} ELSE {a \in Addrs : heap[a] = Freed}

BoxStore_All(p, v) ==
    IF zst THEN heap
    ELSE [a \in Addrs |-> IF a = p \/ heap[a] # Freed THEN <<v>> ELSE heap[a]]

BoxStore(p, v) == IF zst THEN heap ELSE [heap EXCEPT ![p] = <<v>>]

\* *Box::from_raw(ptr): the value moved out, the allocation returned.
BoxValue_Default(p) == IF zst THEN UnitVal ELSE 1

BoxValue(p) == IF zst THEN UnitVal ELSE heap[p][1]

BoxFree(p) == IF zst THEN heap ELSE [heap EXCEPT ![p] = Freed]

\* Whether a reference to *p points to storage that holds an item.
Valid(p) == IF zst THEN p = Dangling ELSE p \in Addrs /\ heap[p] # Freed

\* ---- Deref for ItemOwner -------------------------------------------------
\* deref(&self): unsafe { &*self.ptr }, read by the caller.
Deref_Stale(h) == IF zst THEN UnitVal ELSE heap[CHOOSE a \in Addrs : heap[a] # Freed][1]

Deref(h) == BoxValue(handles[h].ptr)

\* ---- ExternalSetIter -----------------------------------------------------
\* One call of next(): the underlying hash_set::Iter hands out the remaining
\* pointers in an unspecified order; the excluded one is skipped by calling
\* next() again.  The result is the set of possible (item, remaining) pairs.
IterNextOutcomes_Once(rem, except) ==
    IF rem = {} THEN {[y |-> None, rem |-> {}]}
    ELSE {[y |-> {i}, rem |-> {}] : i \in rem}

RECURSIVE IterNextOutcomes(_, _)
IterNextOutcomes(rem, except) ==
    IF rem = {} THEN {[y |-> None, rem |-> {}]}
    ELSE UNION {IF {i} = except
                   THEN IterNextOutcomes(rem \ {i}, except)
                   ELSE {[y |-> {i}, rem |-> rem \ {i}]} : i \in rem}

\* The iterator consumed to its end (collect, count): next() until None.
\* The result is the set of sequences of pointers it can yield.
RECURSIVE IterCollect(_, _)
IterCollect(rem, except) ==
    UNION {IF o.y = None
              THEN {<<>>}
              ELSE {<<CHOOSE i \in o.y : TRUE>> \o rest : rest \in IterCollect(o.rem, except)}
           : o \in IterNextOutcomes(rem, except)}

Range(seq) == {seq[k] : k \in 1..Len(seq)}

\* ---- initial state -------------------------------------------------------
Init ==
    /\ zst \in BOOLEAN
    /\ writerPref \in BOOLEAN
    /\ items = [s \in Sets |-> {}]
    /\ heap = [a \in Addrs |-> Freed]
    /\ writer = [s \in Sets |-> NoThread]
    /\ poisoned = [s \in Sets |-> FALSE]
    /\ guards = [g \in GuardIds |-> NoGuard]
    /\ handles = [h \in HandleIds |-> NoHandle]
    /\ pc = [t \in Threads |-> "idle"]
    /\ cur = [t \in Threads |-> NoCall]
    /\ itr = NoIter

UsedHandles == {h \in HandleIds : handles[h].state # "none"}

\* ---- ExternalSet::insert -------------------------------------------------
\* let ptr = Box::into_raw(Box::new(item)); then the call of write().
InsertCall(t, s, v) ==
    /\ pc[t] = "idle"
    /\ Cardinality(UsedHandles) < MaxHandles
    /\ v \in ItemValues
    /\ \E p \in BoxNewPtrs :
          LET h == Cardinality(UsedHandles) + 1 IN
          /\ heap' = BoxStore(p, v)
          /\ handles' = [handles EXCEPT ![h] =
                 [state |-> "boxed", collection |-> s, ptr |-> p, val |-> v, out |-> <<>>]]
          /\ cur' = [cur EXCEPT ![t] = [s |-> s, h |-> h]]
    /\ pc' = [pc EXCEPT ![t] = "ins_wait"]
    /\ itr' = NoIter
    /\ UNCHANGED <<zst, writerPref, poisoned, items, writer, guards>>

\* self.items.write().unwrap() returning, in insert, take and drop.
WriteAcquire(t) ==
    /\ pc[t] \in WriteWaitPcs
    /\ CanWrite(cur[t].s)
    /\ UnwrapOk(cur[t].s)
    /\ writer' = [writer EXCEPT ![cur[t].s] = t]
    /\ pc' = [pc EXCEPT ![t] =
          CASE pc[t] = "ins_wait" -> "ins_locked"
            [] pc[t] = "take_wait" -> "take_locked"
            [] pc[t] = "drop_wait" -> "drop_locked"]
    /\ itr' = NoIter
    /\ UNCHANGED <<zst, writerPref, poisoned, items, heap, guards, handles, cur>>

\* .insert(ptr) on the locked HashSet; the temporary RwLockWriteGuard is
\* dropped at the end of the statement and the ItemOwner is returned.
InsertRecord(t) ==
    /\ pc[t] = "ins_locked"
    /\ items' = [items EXCEPT ![cur[t].s] = HashInsert(@, handles[cur[t].h].ptr)]
    /\ writer' = WriteUnlock(cur[t].s)
    /\ handles' = [handles EXCEPT ![cur[t].h].state = "live"]
    /\ pc' = [pc EXCEPT ![t] = "idle"]
    /\ cur' = [cur EXCEPT ![t] = NoCall]
    /\ itr' = NoIter
    /\ UNCHANGED <<zst, writerPref, poisoned, heap, guards>>

\* ---- ItemOwner::take -----------------------------------------------------
\* take(self): the owner is moved into the call, which goes to write().
TakeCall(t, h) ==
    /\ pc[t] = "idle"
    /\ handles[h].state = "live"
    /\ handles' = [handles EXCEPT ![h].state = "ending"]
    /\ cur' = [cur EXCEPT ![t] = [s |-> handles[h].collection, h |-> h]]
    /\ pc' = [pc EXCEPT ![t] = "take_wait"]
    /\ itr' = NoIter
    /\ UNCHANGED <<zst, writerPref, poisoned, items, heap, writer, guards>>

\* self.collection.items.write().unwrap().remove(&self.ptr) in take: the
\* mapping it leaves, for an owner of set s with pointer p.
TakeMapping_Keeps(s, p) == items

TakeMapping(s, p) == [items EXCEPT ![s] = HashRemove(@, p)]

\* .remove(&self.ptr) on the locked HashSet, in take; the temporary
\* RwLockWriteGuard is dropped at the end of the statement.
TakeRemove(t) ==
    /\ pc[t] = "take_locked"
    /\ items' = TakeMapping(cur[t].s, handles[cur[t].h].ptr)
    /\ writer' = WriteUnlock(cur[t].s)
    /\ handles' = [handles EXCEPT ![cur[t].h].state = "removed"]
    /\ pc' = [pc EXCEPT ![t] = "take_unlocked"]
    /\ itr' = NoIter
    /\ UNCHANGED <<zst, writerPref, poisoned, heap, guards, cur>>

\* mem::forget(self): the owner moved into take is gone without its Drop
\* running; left to go out of scope it would be dropped as any live owner.
TakeEndState_NoForget == "live"

TakeEndState == "taken"

\* let ret = *Box::from_raw(self.ptr); mem::forget(self); ret
TakeReclaim(t) ==
    /\ pc[t] = "take_unlocked"
    /\ handles' = [handles EXCEPT ![cur[t].h].state = TakeEndState,
                                  ![cur[t].h].out = <<BoxValue(handles[cur[t].h].ptr)>>]
    /\ heap' = BoxFree(handles[cur[t].h].ptr)
    /\ pc' = [pc EXCEPT ![t] = "idle"]
    /\ cur' = [cur EXCEPT ![t] = NoCall]
    /\ itr' = NoIter
    /\ UNCHANGED <<zst, writerPref, poisoned, items, writer, guards>>

\* ---- Drop for ItemOwner --------------------------------------------------
\* The owner going out of scope: drop(&mut self) goes to write().
DropCall(t, h) ==
    /\ pc[t] = "idle"
    /\ handles[h].state = "live"
    /\ handles' = [handles EXCEPT ![h].state = "ending"]
    /\ cur' = [cur EXCEPT ![t] = [s |-> handles[h].collection, h |-> h]]
    /\ pc' = [pc EXCEPT ![t] = "drop_wait"]
    /\ itr' = NoIter
    /\ UNCHANGED <<zst, writerPref, poisoned, items, heap, writer, guards>>

\* self.collection.items.write().unwrap().remove(&self.ptr) in drop: the
\* mapping it leaves, for an owner of set s with pointer p.
DropMapping_Keeps(s, p) == items

DropMapping_Clear(s, p) == [items EXCEPT ![s] = {}]

DropMapping(s, p) == [items EXCEPT ![s] = HashRemove(@, p)]

\* .remove(&self.ptr) on the locked HashSet, in drop; the temporary
\* RwLockWriteGuard is dropped at the end of the statement.
DropRemove(t) ==
    /\ pc[t] = "drop_locked"
    /\ items' = DropMapping(cur[t].s, handles[cur[t].h].ptr)
    /\ writer' = WriteUnlock(cur[t].s)
    /\ handles' = [handles EXCEPT ![cur[t].h].state = "removed"]
    /\ pc' = [pc EXCEPT ![t] = "drop_unlocked"]
    /\ itr' = NoIter
    /\ UNCHANGED <<zst, writerPref, poisoned, heap, guards, cur>>

\* drop(unsafe { *Box::from_raw(self.ptr) }): the value is destroyed.
DropReclaim(t) ==
    /\ pc[t] = "drop_unlocked"
    /\ handles' = [handles EXCEPT ![cur[t].h].state = "dropped",
                                  ![cur[t].h].val = UnitVal]
    /\ heap' = BoxFree(handles[cur[t].h].ptr)
    /\ pc' = [pc EXCEPT ![t] = "idle"]
    /\ cur' = [cur EXCEPT ![t] = NoCall]
    /\ itr' = NoIter
    /\ UNCHANGED <<zst, writerPref, poisoned, items, writer, guards>>

\* ---- ExternalSet::lock and the guard ------------------------------------
\* lock(&self) goes to read().  Every guard asked for has a GuardId to take.
LockCall(t, s) ==
    /\ pc[t] = "idle"
    /\ Cardinality({g \in GuardIds : guards[g].held})
          + Cardinality({u \in Threads : pc[u] = "lock_wait"}) < Cardinality(GuardIds)
    /\ pc' = [pc EXCEPT ![t] = "lock_wait"]
    /\ cur' = [cur EXCEPT ![t] = [s |-> s, h |-> 0]]
    /\ itr' = NoIter
    /\ UNCHANGED <<zst, writerPref, poisoned, items, heap, writer, guards, handles>>

FreeGuards == {g \in GuardIds : ~guards[g].held}

\* self.items.read().unwrap() returning: the guard exists from here on.
LockAcquire(t) ==
    /\ pc[t] = "lock_wait"
    /\ CanRead(cur[t].s)
    /\ UnwrapOk(cur[t].s)
    /\ \E g \in FreeGuards :
          /\ \A g2 \in FreeGuards : g <= g2
          /\ guards' = [guards EXCEPT ![g] =
                [held |-> TRUE, owner |-> t, set |-> cur[t].s, snap |-> items[cur[t].s]]]
    /\ pc' = [pc EXCEPT ![t] = "idle"]
    /\ cur' = [cur EXCEPT ![t] = NoCall]
    /\ itr' = NoIter
    /\ UNCHANGED <<zst, writerPref, poisoned, items, heap, writer, handles>>

\* The guard going out of scope; an iterator borrowing it has gone before.
GuardRelease(t, g) ==
    /\ pc[t] = "idle"
    /\ guards[g].held /\ guards[g].owner = t
    /\ guards' = [guards EXCEPT ![g] = NoGuard]
    /\ itr' = NoIter
    /\ UNCHANGED <<zst, writerPref, poisoned, items, heap, writer, handles, pc, cur>>

\* guard.iter(), consumed to its end:
\* ExternalSetIter { iter: self.0.iter(), except: None }
Iter(t, g) ==
    /\ pc[t] = "idle"
    /\ guards[g].held /\ guards[g].owner = t
    /\ \E out \in IterCollect(items[guards[g].set], None) :
          itr' = [done |-> TRUE, g |-> g, h |-> 0, except |-> None,
                  out |-> Range(out), n |-> Len(out)]
    /\ UNCHANGED <<zst, writerPref, poisoned, items, heap, writer, guards, handles, pc, cur>>

\* guard.others(&owner), consumed to its end:
\* ExternalSetIter { iter: self.0.iter(), except: Some(except.ptr) }
Others(t, g, h) ==
    /\ pc[t] = "idle"
    /\ guards[g].held /\ guards[g].owner = t
    /\ handles[h].state = "live"
    /\ \E out \in IterCollect(items[guards[g].set], {handles[h].ptr}) :
          itr' = [done |-> TRUE, g |-> g, h |-> h, except |-> {handles[h].ptr},
                  out |-> Range(out), n |-> Len(out)]
    /\ UNCHANGED <<zst, writerPref, poisoned, items, heap, writer, guards, handles, pc, cur>>

\* ---- panics ---------------------------------------------------------------
\* HashSet::insert reserves room for the pointer and panics when the table's
\* capacity overflows; the RwLockWriteGuard dropped by the unwinding poisons
\* the lock.  The box stays allocated and no ItemOwner is returned.
InsertPanics(t) ==
    /\ pc[t] = "ins_locked"
    /\ poisoned' = [poisoned EXCEPT ![cur[t].s] = TRUE]
    /\ writer' = WriteUnlock(cur[t].s)
    /\ pc' = [pc EXCEPT ![t] = "panicked"]
    /\ cur' = [cur EXCEPT ![t] = NoCall]
    /\ itr' = NoIter
    /\ UNCHANGED <<zst, writerPref, items, heap, guards, handles>>

\* write() or read() on a poisoned lock returns Err once it has the lock and
\* .unwrap() panics: insert, lock, take and drop end there (a panic out of
\* take drops the owner, whose drop panics in turn).
UnwrapPanics(t) ==
    /\ \/ pc[t] \in WriteWaitPcs /\ CanWrite(cur[t].s)
       \/ pc[t] = "lock_wait" /\ CanRead(cur[t].s)
    /\ ~UnwrapOk(cur[t].s)
    /\ pc' = [pc EXCEPT ![t] = "panicked"]
    /\ cur' = [cur EXCEPT ![t] = NoCall]
    /\ itr' = NoIter
    /\ UNCHANGED <<zst, writerPref, poisoned, items, heap, writer, guards, handles>>

Panics ==
    \/ \E t \in Threads : InsertPanics(t)
    \/ \E t \in Threads : UnwrapPanics(t)

\* ---- the program ---------------------------------------------------------
\* The steps of insert, take, drop, lock and guard release when the program
\* uses the ExternalSets in SS and inserts the values in VV.
Calls(SS, VV) ==
    \/ \E t \in Threads, s \in SS, v \in VV : InsertCall(t, s, v)
    \/ \E t \in Threads : WriteAcquire(t)
    \/ \E t \in Threads : InsertRecord(t)
    \/ \E t \in Threads, h \in HandleIds : TakeCall(t, h)
    \/ \E t \in Threads : TakeRemove(t)
    \/ \E t \in Threads : TakeReclaim(t)
    \/ \E t \in Threads, h \in HandleIds : DropCall(t, h)
    \/ \E t \in Threads : DropRemove(t)
    \/ \E t \in Threads : DropReclaim(t)
    \/ \E t \in Threads, s \in SS : LockCall(t, s)
    \/ \E t \in Threads : LockAcquire(t)
    \/ \E t \in Threads, g \in GuardIds : GuardRelease(t, g)

\* The passes over a guard.
Passes ==
    \/ \E t \in Threads, g \in GuardIds : Iter(t, g)
    \/ \E t \in Threads, g \in GuardIds, h \in HandleIds : Others(t, g, h)

\* A program with one ExternalSet, in which no call panics.
Next == Calls({"A"}, ItemValues) \/ Passes

Spec == Init /\ [][Next]_vars

\* Fair scheduling: a thread inside a call goes on when it can, and the lock
\* is handed to a writer that can take it again and again.  Whether a thread
\* calls anything, and when it lets go of a guard, is up to the program.
Fairness ==
    \A t \in Threads :
        /\ SF_vars(WriteAcquire(t))
        /\ WF_vars(InsertRecord(t))
        /\ WF_vars(TakeRemove(t))
        /\ WF_vars(TakeReclaim(t))
        /\ WF_vars(DropRemove(t))
        /\ WF_vars(DropReclaim(t))
        /\ WF_vars(LockAcquire(t))

\* The lock looks neither at the values nor at the passes: progress is
\* checked on the program with one ExternalSet that inserts one value and
\* makes no pass, under fair scheduling.
OneValue == {CHOOSE v \in ItemValues : TRUE}

LiveNext == Calls({"A"}, OneValue)

LiveSpec == Init /\ [][LiveNext]_vars /\ Fairness

\* A program with one ExternalSet in which HashSet::insert can panic.
PoisonNext == Calls({"A"}, OneValue) \/ Passes \/ Panics

PoisonSpec == Init /\ [][PoisonNext]_vars

\* A program with two ExternalSets of the same item type.
NextTwoSets == Calls(Sets, ItemValues) \/ Passes

SpecTwoSets == Init /\ [][NextTwoSets]_vars

\* The lock looks neither at the values nor at the passes: deadlocks are
\* looked for in the program with two ExternalSets that inserts one value
\* and makes no pass.
CallsNextTwoSets == Calls(Sets, OneValue)

CallsSpecTwoSets == Init /\ [][CallsNextTwoSets]_vars

\* ---- vocabulary of the properties ---------------------------------------
\* No operation in flight on any thread.
Quiescent == \A t \in Threads : pc[t] = "idle"

\* The ItemOwners of set s that insert has returned and that have been
\* neither taken nor dropped.
LiveOwners(s) == {h \in HandleIds : handles[h].state = "live" /\ handles[h].collection = s}

\* The ItemOwners of set s whose pointer insert has recorded and whose take
\* or drop has not yet removed it.
RecordedOwners(s) ==
    {h \in HandleIds : handles[h].state \in RecordedStates /\ handles[h].collection = s}

Ended(h) == handles[h].state \in {"taken", "dropped"}

\* ---- C1 ------------------------------------------------------------------
\* C1: at every quiescent point, what lock().iter() yields on a set is
\* exactly the owners of that set that insert returned and that were neither
\* taken nor dropped: one item per such owner, and no other.
C1_MembershipAtQuiescence ==
    Quiescent =>
        \A s \in Sets : \A out \in IterCollect(items[s], None) :
            /\ Range(out) = {handles[h].ptr : h \in LiveOwners(s)}
            /\ Len(out) = Cardinality(LiveOwners(s))

\* ---- C2 ------------------------------------------------------------------
\* C2: while a guard is held the mapping of its set is the mapping the guard
\* was acquired on, and a pass on the guard yields exactly those identities
\* (less the excluded one).
C2_SnapshotIsolation ==
    /\ \A g \in GuardIds : guards[g].held => items[guards[g].set] = guards[g].snap
    /\ itr.done => itr.out = guards[itr.g].snap \ itr.except

C2_Witness ==
    \E g \in GuardIds, t \in Threads :
        /\ guards[g].held /\ guards[g].snap # {}
        /\ pc[t] \in {"take_wait", "drop_wait"} /\ cur[t].s = guards[g].set
        /\ itr.done /\ itr.g = g /\ itr.out # {}

\* ---- C3 ------------------------------------------------------------------
\* C3: every identity a held guard can yield (the mapping it was acquired on,
\* the mapping as it is, the pass just made) points to storage that has not
\* been reclaimed.
C3_GuardRefsValid ==
    /\ \A g \in GuardIds : guards[g].held =>
          \A p \in guards[g].snap \cup items[guards[g].set] : Valid(p)
    /\ itr.done => \A p \in itr.out : Valid(p)

C3_Witness ==
    \E g \in GuardIds, h \in HandleIds :
        /\ guards[g].held /\ guards[g].snap # {}
        /\ Ended(h) /\ handles[h].collection = guards[g].set
        /\ \E t \in Threads : pc[t] \in {"take_wait", "drop_wait"} /\ cur[t].s = guards[g].set

\* ---- C4 ------------------------------------------------------------------
\* C4: take() returns the value its owner was inserted with.
C4_TakeReturnsInserted ==
    \A h \in HandleIds : handles[h].state = "taken" => handles[h].out = <<handles[h].val>>

C4_Witness ==
    \E h, k \in HandleIds :
        /\ h < k
        /\ handles[h].state = "taken" /\ handles[k].state = "taken"
        /\ handles[h].collection = handles[k].collection
        /\ handles[h].ptr = handles[k].ptr
        /\ handles[h].val # handles[k].val

\* ---- C5 ------------------------------------------------------------------
\* C5: others(h) on a guard of h's own set yields what iter() yields on that
\* guard less h's item, and it still yields the item of every other owner
\* recorded in the set, whatever that item's value.
C5_OthersSkipsOnlyOwn ==
    (itr.done /\ itr.h # 0 /\ handles[itr.h].collection = guards[itr.g].set) =>
        LET s == guards[itr.g].set IN
        /\ \A all \in IterCollect(items[s], None) :
              itr.out = Range(all) \ {handles[itr.h].ptr}
        /\ \A k \in RecordedOwners(s) \ {itr.h} : handles[k].ptr \in itr.out

\* ---- C6 ------------------------------------------------------------------
\* C6: others(h) on a guard of a set h was not inserted into yields every
\* item of that set, as iter() does.
C6_OthersOfForeignOwner ==
    (itr.done /\ itr.h # 0 /\ handles[itr.h].collection # guards[itr.g].set) =>
        \A all \in IterCollect(items[guards[itr.g].set], None) :
            itr.out = Range(all) /\ itr.n = Len(all)

\* ---- C7 ------------------------------------------------------------------
\* C7 as claimed: the identity of an owner whose take() or drop has completed
\* is never again in the mapping of its set, nor yielded by a pass on it.
C7_IdentityNeverAgain ==
    \A h \in HandleIds : Ended(h) =>
        /\ handles[h].ptr \notin items[handles[h].collection]
        /\ (itr.done /\ guards[itr.g].set = handles[h].collection) => handles[h].ptr \notin itr.out

\* A step of thread t that records pointer p in set s: insert's HashSet call.
RecordsPtr(t, s, p) ==
    /\ pc[t] = "ins_locked" /\ pc'[t] = "idle"
    /\ cur[t].s = s /\ handles[cur[t].h].ptr = p

\* A step of thread t that is the HashSet::remove of take or of drop.
RemovesPtr(t) ==
    \/ pc[t] = "take_locked" /\ pc'[t] = "take_unlocked"
    \/ pc[t] = "drop_locked" /\ pc'[t] = "drop_unlocked"

\* C7 as amended: the removal made by take() or drop leaves the owner's
\* identity out of the mapping, and an identity that is out of the mapping
\* comes back only by an insert recording that same address again; a pass
\* yields nothing that is not in the mapping.
C7_IdentityBackOnlyByInsert ==
    [][ /\ \A t \in Threads : RemovesPtr(t) =>
              handles[cur[t].h].ptr \notin items'[cur[t].s]
        /\ \A s \in Sets, p \in Ptrs :
              (p \notin items[s] /\ p \in items'[s]) =>
                  \E t \in Threads : RecordsPtr(t, s, p)
        /\ itr'.done => itr'.out \subseteq items'[guards'[itr'.g].set]
      ]_vars

\* An ended owner's address is recorded again, for another owner.
C7_Witness ==
    \E h, k \in HandleIds :
        /\ Ended(h) /\ handles[k].state = "live"
        /\ handles[k].ptr = handles[h].ptr /\ handles[k].collection = handles[h].collection
        /\ handles[h].ptr \in items[handles[h].collection]

\* ---- C8 ------------------------------------------------------------------
\* C8: the removal step of take() and the removal step of drop produce, from
\* the state they start in, the same mapping: the owner's identity gone,
\* every other identity as before; their reclaiming steps free the same
\* storage and leave the mapping alone.
C8_TakeDropSameMapping ==
    [][ \A t \in Threads :
          LET s == cur[t].s
              p == handles[cur[t].h].ptr IN
          /\ RemovesPtr(t) =>
                /\ items' = TakeMapping(s, p)
                /\ items' = DropMapping(s, p)
                /\ p \notin items'[s]
                /\ \A q \in Ptrs \ {p} : q \in items'[s] <=> q \in items[s]
                /\ \A s2 \in Sets \ {s} : items'[s2] = items[s2]
          /\ (pc[t] \in {"take_unlocked", "drop_unlocked"} /\ pc'[t] = "idle") =>
                /\ items' = items
                /\ heap' = BoxFree(p)
                /\ (pc[t] = "take_unlocked") <=> (handles'[cur[t].h].out # <<>>)
      ]_vars

\* Both paths have run to their end on owners of one set that were in the
\* mapping together: one owner taken, the other dropped, at different
\* addresses, and the mapping empty again.
C8_Witness ==
    \E h, k \in HandleIds :
        /\ handles[h].state = "taken" /\ handles[k].state = "dropped"
        /\ handles[h].collection = handles[k].collection
        /\ handles[h].ptr # handles[k].ptr
        /\ items[handles[h].collection] = {}

\* ---- C9 ------------------------------------------------------------------
\* C9 as claimed: a lock() call waits only while a writer holds write access.
C9_LockWaitsOnlyForHolder ==
    \A t \in Threads :
        (pc[t] = "lock_wait" /\ writer[cur[t].s] = NoThread) => ENABLED LockAcquire(t)

\* C9 as amended: a lock() call waits only while a writer holds write access
\* or is inside write() waiting for it; guards that are held never make it
\* wait.
C9_LockNotBlockedByGuards ==
    \A t \in Threads :
        ( /\ pc[t] = "lock_wait"
          /\ writer[cur[t].s] = NoThread
          /\ \A u \in Threads : ~(pc[u] \in WriteWaitPcs /\ cur[u].s = cur[t].s) )
            => ENABLED LockAcquire(t)

\* Two guards of one set held at the same time by different threads, the
\* second acquired while the first was held.
C9_Witness ==
    \E g, k \in GuardIds :
        /\ g # k /\ guards[g].held /\ guards[k].held
        /\ guards[g].set = guards[k].set
        /\ guards[g].owner # guards[k].owner

\* ---- C10 -----------------------------------------------------------------
WaitsToWrite(t) == pc[t] \in WriteWaitPcs

\* C10: under fair scheduling a waiting insert, take or drop completes once
\* the guards of its set have been released and none is held any more; with
\* no guard held and the lock not in another writer's hands it can go on at
\* once, so held guards are all it waits for.
C10_WriterCompletesOnceReleased ==
    /\ [](\A t \in Threads :
            (WaitsToWrite(t) /\ HeldGuards(cur[t].s) = {} /\ writer[cur[t].s] = NoThread)
                => ENABLED WriteAcquire(t))
    /\ \A t \in Threads :
          <>[](HeldGuards("A") = {}) => (WaitsToWrite(t) ~> (pc[t] = "idle"))

\* A writer kept waiting by a guard that another thread holds and can
\* release, in a set that has an item.
C10_Witness ==
    \E t, u \in Threads, g \in GuardIds :
        /\ WaitsToWrite(t) /\ t # u
        /\ guards[g].held /\ guards[g].owner = u /\ guards[g].set = cur[t].s
        /\ pc[u] = "idle"
        /\ writer[cur[t].s] = NoThread
        /\ items[cur[t].s] # {}

\* ---- C11 -----------------------------------------------------------------
\* The owners of set s whose take() or drop has removed the pointer.
RemovedOwners(s) ==
    {h \in HandleIds : handles[h].state \in {"removed", "taken", "dropped"}
                          /\ handles[h].collection = s}

\* C11: a guard yields the item of every owner that insert had returned
\* before the guard was acquired and that was not removed, and it yields the
\* item of no owner whose take() or drop had removed it (an address it yields
\* is there for an owner that is recorded), whatever the other threads are
\* in the middle of.
C11_LinearizedVisibility ==
    \A g \in GuardIds : guards[g].held =>
        LET s == guards[g].set IN
        /\ \A h \in RecordedOwners(s) : handles[h].ptr \in guards[g].snap
        /\ \A h \in RemovedOwners(s) :
              handles[h].ptr \in guards[g].snap =>
                  \E k \in RecordedOwners(s) : handles[k].ptr = handles[h].ptr
        /\ (itr.done /\ itr.g = g /\ itr.except = None) =>
              /\ \A h \in RecordedOwners(s) : handles[h].ptr \in itr.out
              /\ \A h \in RemovedOwners(s) :
                    handles[h].ptr \in itr.out =>
                        \E k \in RecordedOwners(s) : handles[k].ptr = handles[h].ptr

\* ---- C12 -----------------------------------------------------------------
\* C12: dereferencing an owner that insert returned and that was not taken
\* reads valid storage and yields the value it was inserted with, and no
\* step that leaves the owner alive (an insert, take, drop, lock, guard
\* release or pass on other items) changes what it yields.
C12_DerefFrame ==
    /\ [](\A h \in HandleIds : handles[h].state = "live" =>
              Valid(handles[h].ptr) /\ Deref(h) = handles[h].val)
    /\ [][ \A h \in HandleIds :
             (handles[h].state = "live" /\ handles'[h].state = "live") =>
                 Deref(h)' = Deref(h)
         ]_vars

\* An owner alive next to an owner of the same set that was taken with
\* another value.
C12_Witness ==
    \E h, k \in HandleIds :
        /\ handles[h].state = "live" /\ handles[k].state = "taken"
        /\ handles[h].collection = handles[k].collection
        /\ handles[k].out # <<handles[h].val>>
        /\ Deref(h) = handles[h].val

\* ---- C13 -----------------------------------------------------------------
\* C13: every pass iter() can make on a held guard ends, and yields every
\* identity of the mapping the guard was acquired on exactly once; the pass
\* just made did so; and as long as the guard is held that mapping stays the
\* same, so that each further pass yields the same set.
C13_IterRestartable ==
    /\ [](\A g \in GuardIds : guards[g].held =>
            \A out \in IterCollect(items[guards[g].set], None) :
                /\ Range(out) = guards[g].snap
                /\ Len(out) = Cardinality(guards[g].snap))
    /\ []((itr.done /\ itr.except = None) =>
            /\ itr.out = guards[itr.g].snap
            /\ itr.n = Cardinality(guards[itr.g].snap))
    /\ [][ \A g \in GuardIds : (guards[g].held /\ guards'[g].held) =>
              /\ guards'[g].snap = guards[g].snap
              /\ items'[guards[g].set] = items[guards[g].set]
         ]_vars

\* A pass of iter() over two items, made while an insert, take or drop of
\* another thread waits for the guard.
C13_Witness ==
    /\ itr.done /\ itr.except = None /\ itr.n = 2
    /\ guards[itr.g].held
    /\ \E t \in Threads : pc[t] \in WriteWaitPcs /\ cur[t].s = guards[itr.g].set

\* ---- C14 -----------------------------------------------------------------
\* The changes of state an ItemOwner can go through.
OwnerEdges ==
    { <<"none", "boxed">>, <<"boxed", "live">>, <<"live", "ending">>,
      <<"ending", "removed">>, <<"removed", "taken">>, <<"removed", "dropped">> }

\* A step of thread t that is the Box::from_raw of take or of drop.
ReclaimsBox(t) == pc[t] \in {"take_unlocked", "drop_unlocked"} /\ pc'[t] = "idle"

\* C14: an owner changes state only along insert -> take or insert -> drop;
\* once taken or dropped nothing happens to it again; the removal step runs
\* for an owner whose take or drop was called and whose pointer was not yet
\* removed, the reclaiming step for an owner whose pointer was removed and
\* whose storage was not yet reclaimed, and it ends taken on the take path
\* and dropped on the drop path; no two calls are ever on the same owner.
C14_OneEnding ==
    [][ /\ \A h \in HandleIds :
              /\ handles'[h].state # handles[h].state =>
                    <<handles[h].state, handles'[h].state>> \in OwnerEdges
              /\ Ended(h) => handles'[h] = handles[h]
        /\ \A t \in Threads :
              LET h == cur[t].h IN
              /\ RemovesPtr(t) =>
                    /\ handles[h].state = "ending" /\ handles'[h].state = "removed"
                    /\ writer[cur[t].s] = t
              /\ ReclaimsBox(t) =>
                    /\ handles[h].state = "removed"
                    /\ Valid(handles[h].ptr)
                    /\ ~zst => heap'[handles[h].ptr] = Freed
                    /\ handles'[h].state = IF pc[t] = "take_unlocked" THEN "taken" ELSE "dropped"
        /\ \A t, u \in Threads :
              (t # u /\ pc'[t] # "idle" /\ pc'[u] # "idle" /\ cur'[t].h # 0) =>
                  cur'[t].h # cur'[u].h
      ]_vars

\* One owner taken and a later owner dropped whose boxes had the same
\* address: each was removed and reclaimed by its own path.
C14_Witness ==
    \E h, k \in HandleIds :
        /\ ~zst /\ h < k
        /\ handles[h].state = "taken" /\ handles[k].state = "dropped"
        /\ handles[h].ptr = handles[k].ptr
        /\ heap[handles[h].ptr] = Freed

\* ---- C15 -----------------------------------------------------------------
\* C15: a lock once poisoned stays poisoned, and every insert, lock, take
\* and drop that comes to the unwrap of a poisoned lock ends in a panic: the
\* mapping, the boxes, the guards and the owners are as before, so that no
\* ItemOwner, guard or value is returned.
C15_PoisonedAborts ==
    [][ /\ \A s \in Sets : poisoned[s] => poisoned'[s]
        /\ \A t \in Threads :
              ( /\ pc[t] \in WriteWaitPcs \cup {"lock_wait"}
                /\ poisoned[cur[t].s]
                /\ pc'[t] # pc[t] ) =>
                    /\ pc'[t] = "panicked"
                    /\ items' = items /\ heap' = heap
                    /\ guards' = guards /\ handles' = handles
                    /\ writer' = writer
      ]_vars

\* The lock poisoned by an insert that panicked, and a take or drop called
\* afterwards ended by the panic: its owner's pointer is still recorded.
C15_Witness ==
    /\ poisoned["A"]
    /\ \A t \in Threads : pc[t] = "panicked"
    /\ \E h \in HandleIds :
          handles[h].state = "ending" /\ handles[h].ptr \in items["A"]

\* ---- C16 -----------------------------------------------------------------
\* C16 as claimed: an owner that is alive gives write access to its value: a
\* step that changes the value read through it, and leaves it alive, can be
\* taken (for an item type with more than one value).
C16_HandleWrites ==
    \A h \in HandleIds :
        (handles[h].state = "live" /\ ~zst) =>
            ENABLED (Next /\ handles'[h].state = "live" /\ Deref(h)' # Deref(h))

\* C16 as amended: an owner gives read access only.  No step changes the
\* value in a box that stays allocated; the box of an owner whose storage
\* was not reclaimed, which is what deref reads and what a pass refers to,
\* holds the value it was inserted with; and take() returns that value.
C16_HandleReadOnly ==
    /\ [](\A h \in HandleIds :
            handles[h].state \in {"boxed", "live", "ending", "removed"} =>
                Valid(handles[h].ptr) /\ BoxValue(handles[h].ptr) = handles[h].val)
    /\ [][ /\ \A a \in Addrs :
                (heap[a] # Freed /\ heap'[a] # Freed) => heap'[a] = heap[a]
           /\ \A t \in Threads :
                (pc[t] = "take_unlocked" /\ pc'[t] = "idle") =>
                    handles'[cur[t].h].out = <<Deref(cur[t].h)>>
         ]_vars

\* A pass has just yielded the item of an owner that is alive, after an
\* owner of the same set with another value was inserted and taken.
C16_Witness ==
    \E h, k \in HandleIds :
        /\ ~zst /\ h # k
        /\ handles[h].state = "live" /\ handles[k].state = "taken"
        /\ handles[k].val # handles[h].val
        /\ itr.done /\ handles[h].ptr \in itr.out

\* ---- C17 -----------------------------------------------------------------
\* C17: the removal step of take() and of drop runs with write access, on
\* storage not yet reclaimed, and neither reclaims it nor returns the value;
\* the reclaiming step runs for an owner whose removal step has run, and if
\* its address is in the mapping then, it is there for another owner that is
\* recorded; in insert, the allocation leaves the mapping alone and the
\* recording step finds the box allocated and holding the item.
C17_RemoveBeforeReclaim ==
    [][ \A t \in Threads :
          LET h == cur[t].h
              s == cur[t].s
              p == handles[cur[t].h].ptr IN
          /\ RemovesPtr(t) =>
                /\ writer[s] = t
                /\ Valid(p) /\ heap' = heap
                /\ handles'[h].out = <<>>
          /\ ReclaimsBox(t) =>
                /\ handles[h].state = "removed"
                /\ p \in items[s] =>
                      \E k \in RecordedOwners(s) : handles[k].ptr = p
          /\ (pc[t] = "idle" /\ pc'[t] = "ins_wait") => items' = items
          /\ (pc[t] = "ins_locked" /\ pc'[t] = "idle") =>
                /\ handles[h].state = "boxed" /\ writer[s] = t
                /\ Valid(p) /\ BoxValue(p) = handles[h].val
      ]_vars

\* A drop and a take both between their removal and their reclaiming: the
\* pointers are out of the mapping and the boxes still allocated.
C17_Witness ==
    \E t, u \in Threads :
        /\ ~zst
        /\ pc[t] = "drop_unlocked" /\ pc[u] = "take_unlocked"
        /\ handles[cur[t].h].ptr \notin items[cur[t].s]
        /\ handles[cur[u].h].ptr \notin items[cur[u].s]
        /\ heap[handles[cur[t].h].ptr] # Freed /\ heap[handles[cur[u].h].ptr] # Freed

\* ---- C18 -----------------------------------------------------------------
\* C18: the recording step of insert adds a pointer that was not in the
\* mapping, which grows by one; and two owners whose pointers are recorded
\* at the same time, in the same set or in two sets, have different
\* pointers.  This is claimed for every item type.
C18_FreshIdentity ==
    [][ /\ \A t \in Threads :
              (pc[t] = "ins_locked" /\ pc'[t] = "idle") =>
                  /\ handles[cur[t].h].ptr \notin items[cur[t].s]
                  /\ Cardinality(items'[cur[t].s]) = Cardinality(items[cur[t].s]) + 1
        /\ \A h, k \in HandleIds :
              ( /\ h # k
                /\ handles'[h].state \in RecordedStates
                /\ handles'[k].state \in RecordedStates ) =>
                    handles'[h].ptr # handles'[k].ptr
      ]_vars

\* ---- C19 -----------------------------------------------------------------
HoldsGuard(t) == \E g \in GuardIds : guards[g].held /\ guards[g].owner = t

HoldsGuardOf(t, s) ==
    \E g \in GuardIds : guards[g].held /\ guards[g].owner = t /\ guards[g].set = s

\* Thread t is inside insert, take or drop on a set of which it holds a guard.
SelfBlocked(t) == pc[t] \in WriteWaitPcs /\ HoldsGuardOf(t, cur[t].s)

\* Thread t is inside insert, take, drop or lock while it holds a guard.
NestedCall(t) == pc[t] \in WriteWaitPcs \cup {"lock_wait"} /\ HoldsGuard(t)

\* Thread t can go on in the call it is in, or let go of a guard.
CanStep(t) ==
    \/ ENABLED WriteAcquire(t)
    \/ ENABLED InsertRecord(t)
    \/ ENABLED TakeRemove(t) \/ ENABLED TakeReclaim(t)
    \/ ENABLED DropRemove(t) \/ ENABLED DropReclaim(t)
    \/ ENABLED LockAcquire(t)
    \/ \E g \in GuardIds : ENABLED GuardRelease(t, g)

\* A deadlock: a thread waits inside a call, and no thread can go on in its
\* call or let go of a guard.
Stuck ==
    /\ \E t \in Threads : pc[t] \in WriteWaitPcs \cup {"lock_wait"}
    /\ \A t \in Threads : ~CanStep(t)

\* C19 as claimed: a thread inside insert, take or drop on a set of which it
\* holds a guard cannot get write access; with no such thread, the state is
\* not a deadlock.
C19_DeadlockOnlySelf ==
    /\ \A t \in Threads : SelfBlocked(t) => ~ENABLED WriteAcquire(t)
    /\ (\A t \in Threads : ~SelfBlocked(t)) => ~Stuck

\* C19 as amended: a thread inside insert, take or drop on a set of which it
\* holds a guard cannot get write access, and stays so whatever the others
\* do; with no thread inside insert, take, drop or lock while it holds a
\* guard of any set, the state is not a deadlock.
C19_DeadlockOnlyNested ==
    /\ [](\A t \in Threads : SelfBlocked(t) => ~ENABLED WriteAcquire(t))
    /\ [][\A t \in Threads : SelfBlocked(t) => SelfBlocked(t)']_vars
    /\ []((\A t \in Threads : ~NestedCall(t)) => ~Stuck)

\* A thread waits in insert, take or drop on a set of which it holds a guard,
\* while the other thread waits in lock() without holding a guard.
C19_Witness ==
    \E t, u \in Threads :
        /\ t # u /\ SelfBlocked(t)
        /\ pc[u] = "lock_wait" /\ ~HoldsGuard(u)

\* ---- C20 -----------------------------------------------------------------
WriteLockedPcs == {"ins_locked", "take_locked", "drop_locked"}

\* C20: write access is held by a thread only between write() returning and
\* the HashSet call of that statement; the step that makes the HashSet call
\* gives it back; so take() reclaims and returns, and drop reclaims and
\* destroys the value, without write access, and nothing the thread holds
\* keeps another write() on the set from going on then.
C20_LockOnlyForUpdate ==
    /\ [](\A s \in Sets : writer[s] # NoThread =>
            pc[writer[s]] \in WriteLockedPcs /\ cur[writer[s]].s = s)
    /\ [](\A t \in Threads : pc[t] \in {"take_unlocked", "drop_unlocked"} =>
            /\ writer[cur[t].s] # t
            /\ \A u \in Threads :
                  ( /\ pc[u] \in WriteWaitPcs /\ cur[u].s = cur[t].s
                    /\ HeldGuards(cur[t].s) = {}
                    /\ writer[cur[t].s] \notin Threads \ {t} ) =>
                        ENABLED WriteAcquire(u))
    /\ [][ \A t \in Threads :
             /\ (pc[t] \in WriteLockedPcs /\ pc'[t] # pc[t]) =>
                   writer'[cur[t].s] = NoThread
             /\ ReclaimsBox(t) => writer' = writer /\ writer[cur[t].s] # t
         ]_vars

\* While a drop is between its removal and the destruction of the value,
\* the other thread has taken write access to the same set.
C20_Witness ==
    \E t, u \in Threads :
        /\ t # u /\ pc[t] = "drop_unlocked"
        /\ pc[u] \in WriteLockedPcs /\ cur[u].s = cur[t].s
        /\ writer[cur[t].s] = u

====
